---- MODULE Spec2Model ----
(***************************************************************************)
(* The list-based EditorBuffer of readerEx.13.07 (buffer.cpp): a singly    *)
(* linked chain of character cells behind a dummy head cell, a cursor that *)
(* points at the cell to the LEFT of the insertion point, and a one-slot   *)
(* clipboard (copyString).                                                 *)
(*                                                                         *)
(* Characters are one-character strings, texts are sequences of them.      *)
(* The heap is a function from the allocated cells to their contents, so   *)
(* `new` extends its domain and `delete` shrinks it.                       *)
(***************************************************************************)
EXTENDS Integers, Sequences, FiniteSets, TLC

\* Largest number of characters the buffer is allowed to grow to.
MaxLen == 3

SPACE == " "

NEWLINE == "\n"

\* The characters the callers type: one word character and both delimiters.
Chars == {"a", SPACE, NEWLINE}

\* Values the never-initialised ch field of the dummy cell may hold.
Garbage == Chars

NULL == 0

\* Addresses the allocator hands out: the dummy cell and one per character.
Cells == 1 .. (MaxLen + 1)

\* Arguments the callers pass.
Strs == { <<>>, <<"a", SPACE>>, <<NEWLINE, "a", "a">> }

CopyArgs == (0 - 1) .. (MaxLen + 1)

WordArgs == (0 - 1) .. 2

VARIABLES start, cursor, copyString, heap, pc, last, pre, typed, seq

vars == <<start, cursor, copyString, heap, pc, last, pre, typed, seq>>

\* The fields of the EditorBuffer object, as one value.
Buf == [start |-> start, cursor |-> cursor, copyString |-> copyString, heap |-> heap]

IsDelim(c) == c = SPACE \/ c = NEWLINE

Min(a, b) == IF a < b THEN a ELSE b

\* `new Cell`: an address that is not in use (the lowest one).
NewCell(h) == CHOOSE c \in Cells \ DOMAIN h : \A d \in Cells \ DOMAIN h : c <= d

\* h with cell c allocated and holding v / with cell c freed.
Alloc(h, c, v) == [x \in (DOMAIN h) \cup {c} |-> IF x = c THEN v ELSE h[x]]

Free(h, c) == [x \in (DOMAIN h) \ {c} |-> h[x]]

----------------------------------------------------------------------------
(* getText and getCursor *)

RECURSIVE textFrom(_, _)
textFrom(h, cp) == IF cp = NULL THEN <<>> ELSE <<h[cp].ch>> \o textFrom(h, h[cp].link)

\* getText(const Cell *startCell): the characters after startCell.
getTextFrom(b, startCell) == textFrom(b.heap, b.heap[startCell].link)

getText(b) == textFrom(b.heap, b.heap[b.start].link)

RECURSIVE countTo(_, _, _)
countTo(h, cp, target) == IF cp = target THEN 0 ELSE 1 + countTo(h, h[cp].link, target)

\* Mutant: the count starts at 1, taking the dummy cell for a character.
getCursor_countsDummy(b) == 1 + countTo(b.heap, b.start, b.cursor)

getCursor(b) == countTo(b.heap, b.start, b.cursor)

\* What a caller can observe of a buffer.
Observe(b) == [text |-> getText(b), cursor |-> getCursor(b), clip |-> b.copyString]

Obs == Observe(Buf)

----------------------------------------------------------------------------
(* Cursor movement *)

moveCursorForward(b) ==
    IF b.heap[b.cursor].link # NULL THEN [b EXCEPT !.cursor = b.heap[b.cursor].link] ELSE b

RECURSIVE fwSkipDelims(_)
fwSkipDelims(b) ==
    IF b.heap[b.cursor].link # NULL /\ IsDelim(b.heap[b.heap[b.cursor].link].ch)
    THEN fwSkipDelims(moveCursorForward(b))
    ELSE b

\* Mutant: only SPACE ends a word, NEWLINE does not.
RECURSIVE fwSkipWord_spaceOnly(_)
fwSkipWord_spaceOnly(b) ==
    IF b.heap[b.cursor].link # NULL /\ b.heap[b.heap[b.cursor].link].ch # SPACE
    THEN fwSkipWord_spaceOnly(moveCursorForward(b))
    ELSE b

RECURSIVE fwSkipWord(_)
fwSkipWord(b) ==
    IF b.heap[b.cursor].link # NULL /\ ~IsDelim(b.heap[b.heap[b.cursor].link].ch)
    THEN fwSkipWord(moveCursorForward(b))
    ELSE b

moveCursorForwardWord(b) == fwSkipWord(fwSkipDelims(b))

RECURSIVE findPred(_, _)
findPred(b, cp) == IF b.heap[cp].link # b.cursor THEN findPred(b, b.heap[cp].link) ELSE cp

\* Mutant: the cursor goes back to the start, the loop that looks for the
\* cell before it is left out.
moveCursorBackward_toStart(b) == [b EXCEPT !.cursor = b.start]

moveCursorBackward(b) ==
    IF b.cursor # b.start THEN [b EXCEPT !.cursor = findPred(b, b.start)] ELSE b

moveCursorToStart(b) == [b EXCEPT !.cursor = b.start]

\* Mutant: an if in place of the while, the cursor advances one cell only.
moveCursorToEnd_oneStep(b) ==
    IF b.heap[b.cursor].link # NULL THEN [b EXCEPT !.cursor = b.heap[b.cursor].link] ELSE b

RECURSIVE moveCursorToEnd(_)
moveCursorToEnd(b) ==
    IF b.heap[b.cursor].link # NULL
    THEN moveCursorToEnd([b EXCEPT !.cursor = b.heap[b.cursor].link])
    ELSE b

\* The loop conditions of moveCursorBackwardWord: both read cursor->ch.
bwCond1(b) == b.cursor # NULL /\ IsDelim(b.heap[b.cursor].ch)

bwCond2(b) == b.cursor # NULL /\ ~IsDelim(b.heap[b.cursor].ch)

----------------------------------------------------------------------------
(* Insertion and deletion *)

\* Mutant: step 4 is left out, the cursor stays before the new cell.
insertCharacter_noAdvance(b, c) ==
    LET cp == NewCell(b.heap)
        h1 == Alloc(b.heap, cp, [ch |-> c, link |-> b.heap[b.cursor].link])
    IN  [b EXCEPT !.heap = [h1 EXCEPT ![b.cursor].link = cp]]

insertCharacter(b, c) ==
    LET cp == NewCell(b.heap)
        h1 == Alloc(b.heap, cp, [ch |-> c, link |-> b.heap[b.cursor].link])
    IN  [b EXCEPT !.heap = [h1 EXCEPT ![b.cursor].link = cp], !.cursor = cp]

\* Mutant: the string is walked from its last character to its first.
RECURSIVE insertFrom_backToFront(_, _, _)
insertFrom_backToFront(b, str, i) ==
    IF i < Len(str)
    THEN insertFrom_backToFront(insertCharacter(b, str[Len(str) - i]), str, i + 1)
    ELSE b

RECURSIVE insertFrom(_, _, _)
insertFrom(b, str, i) ==
    IF i < Len(str) THEN insertFrom(insertCharacter(b, str[i + 1]), str, i + 1) ELSE b

insertString(b, str) == insertFrom(b, str, 0)

\* Mutant: oldCell is unlinked but never deleted.
deleteCharacter_leaks(b) ==
    IF b.heap[b.cursor].link # NULL
    THEN LET oldCell == b.heap[b.cursor].link
         IN  [b EXCEPT !.heap = [b.heap EXCEPT ![b.cursor].link = b.heap[oldCell].link]]
    ELSE b

\* Mutant: the cursor's link is cleared, not set to the successor of oldCell.
deleteCharacter_dropsTail(b) ==
    IF b.heap[b.cursor].link # NULL
    THEN LET oldCell == b.heap[b.cursor].link
             h1 == [b.heap EXCEPT ![b.cursor].link = NULL]
         IN  [b EXCEPT !.heap = Free(h1, oldCell)]
    ELSE b

deleteCharacter(b) ==
    IF b.heap[b.cursor].link # NULL
    THEN LET oldCell == b.heap[b.cursor].link
             h1 == [b.heap EXCEPT ![b.cursor].link = b.heap[oldCell].link]
         IN  [b EXCEPT !.heap = Free(h1, oldCell)]
    ELSE b

\* Mutant: only SPACE is deleted as leading whitespace, NEWLINE is not.
RECURSIVE delDelims_spaceOnly(_)
delDelims_spaceOnly(b) ==
    IF b.heap[b.cursor].link # NULL /\ b.heap[b.heap[b.cursor].link].ch = SPACE
    THEN delDelims_spaceOnly(deleteCharacter(b))
    ELSE b

RECURSIVE delDelims(_)
delDelims(b) ==
    IF b.heap[b.cursor].link # NULL /\ IsDelim(b.heap[b.heap[b.cursor].link].ch)
    THEN delDelims(deleteCharacter(b))
    ELSE b

RECURSIVE delWordChars(_)
delWordChars(b) ==
    IF b.heap[b.cursor].link # NULL /\ ~IsDelim(b.heap[b.heap[b.cursor].link].ch)
    THEN delWordChars(deleteCharacter(b))
    ELSE b

deleteWord(b) == delWordChars(delDelims(b))

----------------------------------------------------------------------------
(* Copy and paste *)

\* TLC's integers are 32 bits wide, so the width of size_t is scaled down;
\* every modulus above the longest text clamps alike.
SizeModulus == 2 ^ 30

\* Mutant: a negative count is taken for 0, as a signed parameter would be.
toSize_negativeIsZero(n) == IF n < 0 THEN 0 ELSE n

toSize(n) == n % SizeModulus

\* std::string::substr(0, n): n is converted to size_t and clamped.
substr0(s, n) == SubSeq(s, 1, Min(toSize(n), Len(s)))

\* Mutant: what is copied is added to the clipboard, not put in its place.
copy_appends(b, nChars) ==
    [b EXCEPT !.copyString = @ \o substr0(getTextFrom(b, b.cursor), nChars)]

\* Mutant: the text is taken from the start of the buffer, not from the cursor.
copy_fromStart(b, nChars) == [b EXCEPT !.copyString = substr0(getText(b), nChars)]

copy(b, nChars) == [b EXCEPT !.copyString = substr0(getTextFrom(b, b.cursor), nChars)]

\* Mutant: the first for loop is left out, delimiters are not skipped.
cwSkipDelims_none(s, i) == i

\* First for loop of copyWords: i after the delimiters at i.
RECURSIVE cwSkipDelims(_, _)
cwSkipDelims(s, i) == IF i < Len(s) /\ IsDelim(s[i + 1]) THEN cwSkipDelims(s, i + 1) ELSE i

\* Second for loop: i at the next delimiter (hit) or at the end of s.
RECURSIVE cwFindDelim(_, _)
cwFindDelim(s, i) ==
    IF i < Len(s)
    THEN IF IsDelim(s[i + 1]) THEN [i |-> i, hit |-> TRUE] ELSE cwFindDelim(s, i + 1)
    ELSE [i |-> i, hit |-> FALSE]

\* The while loop: the final value of i.
RECURSIVE cwLoop(_, _, _)
cwLoop(s, i, nWords) ==
    IF nWords > 0
    THEN LET r == cwFindDelim(s, cwSkipDelims(s, i))
             n1 == IF r.hit THEN nWords - 1 ELSE nWords
         IN  cwLoop(s, r.i, IF r.i = Len(s) THEN 0 ELSE n1)
    ELSE i

\* Mutant: the whitespace before the first word is cut off what is stored.
copyWords_trimmed(b, nWords) ==
    LET charString == getTextFrom(b, b.cursor)
        first == cwSkipDelims(charString, 0)
        i == cwLoop(charString, 0, nWords)
    IN  [b EXCEPT !.copyString = SubSeq(charString, first + 1, i)]

copyWords(b, nWords) ==
    LET charString == getTextFrom(b, b.cursor)
    IN  [b EXCEPT !.copyString = substr0(charString, cwLoop(charString, 0, nWords))]

\* Mutant: the clipboard is emptied by the paste.
paste_consumes(b) == [insertString(b, b.copyString) EXCEPT !.copyString = <<>>]

paste(b) == insertString(b, b.copyString)

----------------------------------------------------------------------------
(* Destruction *)

\* The loop of the destructor from cp on: the heap it leaves and the cells it
\* has passed to delete, in order.
RECURSIVE destroyFrom(_, _, _)
destroyFrom(h, cp, freed) ==
    IF cp # NULL
    THEN LET next == h[cp].link
         IN  destroyFrom(Free(h, cp), next, Append(freed, cp))
    ELSE [heap |-> h, freed |-> freed]

destroy(b) == destroyFrom(b.heap, b.start, <<>>)

----------------------------------------------------------------------------
(* The state machine: a caller invoking the operations one after another.  *)
(* pc is "idle" between calls, "ret" when a call has returned, "destroyed" *)
(* after the destructor, and a point inside moveCursorBackwardWord         *)
(* otherwise.  From a call until the caller  *)
(* moves on (Resume), last holds the call and pre what was observable      *)
(* before it.  typed holds the characters passed so far, for as long as    *)
(* insertCharacter is the only operation that has been called.  seq       *)
(* follows two sequences of calls: insertCharacter, moveCursorBackward,    *)
(* deleteCharacter, and moveCursorForwardWord from inside a word followed  *)
(* by moveCursorBackwardWord; it holds the first call of the sequence, how *)
(* many of its calls have been made, and what was observable before it.   *)

NoneTyped == [only |-> FALSE, chars |-> <<>>]

Call(op, arg) == [op |-> op, arg |-> arg]

NoCall == Call("", <<>>)

NoObs == [text |-> <<>>, cursor |-> 0, clip |-> <<>>]

NoSeq == [first |-> "", stage |-> 0, snap |-> NoObs]

\* Index p of text T has characters of one word on both sides.
InsideWord(T, p) == 0 < p /\ p < Len(T) /\ ~IsDelim(T[p]) /\ ~IsDelim(T[p + 1])

\* seq once the call l is made.
Track(l) ==
    IF l.op = "insertCharacter"
    THEN [first |-> l.op, stage |-> 1, snap |-> Obs]
    ELSE IF l.op = "moveCursorForwardWord" /\ InsideWord(Obs.text, Obs.cursor)
    THEN [first |-> l.op, stage |-> 1, snap |-> Obs]
    ELSE IF \/ l.op = "moveCursorBackward" /\ seq.first = "insertCharacter" /\ seq.stage = 1
            \/ l.op = "deleteCharacter" /\ seq.first = "insertCharacter" /\ seq.stage = 2
            \/ /\ l.op = "moveCursorBackwardWord"
               /\ seq.first = "moveCursorForwardWord"
               /\ seq.stage = 1
    THEN [seq EXCEPT !.stage = @ + 1]
    ELSE NoSeq

\* The sequence seq follows is complete.
SeqDone ==
    \/ seq.first = "insertCharacter" /\ seq.stage = 3
    \/ seq.first = "moveCursorForwardWord" /\ seq.stage = 2

\* The call returns leaving the buffer as b.
Return(b, l) ==
    /\ seq' = Track(l)
    /\ start' = b.start
    /\ cursor' = b.cursor
    /\ copyString' = b.copyString
    /\ heap' = b.heap
    /\ pc' = "ret"
    /\ last' = l
    /\ pre' = Obs

Init ==
    /\ start = 1
    /\ cursor = 1
    /\ copyString = <<>>
    /\ \E g \in Garbage : heap = [c \in {1} |-> [ch |-> g, link |-> NULL]]
    /\ pc = "ret"
    /\ last = Call("EditorBuffer", <<>>)
    /\ pre = NoObs
    /\ typed = [only |-> TRUE, chars |-> <<>>]
    /\ seq = NoSeq

MoveCursorForward ==
    /\ pc = "idle"
    /\ Return(moveCursorForward(Buf), Call("moveCursorForward", <<>>))
    /\ typed' = NoneTyped

MoveCursorBackward ==
    /\ pc = "idle"
    /\ Return(moveCursorBackward(Buf), Call("moveCursorBackward", <<>>))
    /\ typed' = NoneTyped

MoveCursorForwardWord ==
    /\ pc = "idle"
    /\ Return(moveCursorForwardWord(Buf), Call("moveCursorForwardWord", <<>>))
    /\ typed' = NoneTyped

MoveCursorToStart ==
    /\ pc = "idle"
    /\ Return(moveCursorToStart(Buf), Call("moveCursorToStart", <<>>))
    /\ typed' = NoneTyped

MoveCursorToEnd ==
    /\ pc = "idle"
    /\ Return(moveCursorToEnd(Buf), Call("moveCursorToEnd", <<>>))
    /\ typed' = NoneTyped

\* moveCursorBackwardWord is entered.  Each of its two while loops is a test
\* of the condition (bw1, bw2) and a body calling moveCursorBackward (body1,
\* body2); with the cursor on the dummy cell the body changes nothing.
BackwardWordCall ==
    /\ pc = "idle"
    /\ pc' = "bw1"
    /\ last' = Call("moveCursorBackwardWord", <<>>)
    /\ pre' = Obs
    /\ typed' = NoneTyped
    /\ seq' = Track(Call("moveCursorBackwardWord", <<>>))
    /\ UNCHANGED <<start, cursor, copyString, heap>>

BackwardWordTest1 ==
    /\ pc = "bw1"
    /\ pc' = IF bwCond1(Buf) THEN "body1" ELSE "bw2"
    /\ UNCHANGED <<start, cursor, copyString, heap, last, pre, typed, seq>>

BackwardWordBody1 ==
    /\ pc = "body1"
    /\ cursor' = moveCursorBackward(Buf).cursor
    /\ pc' = "bw1"
    /\ UNCHANGED <<start, copyString, heap, last, pre, typed, seq>>

BackwardWordTest2 ==
    /\ pc = "bw2"
    /\ pc' = IF bwCond2(Buf) THEN "body2" ELSE "ret"
    /\ UNCHANGED <<start, cursor, copyString, heap, last, pre, typed, seq>>

BackwardWordBody2 ==
    /\ pc = "body2"
    /\ cursor' = moveCursorBackward(Buf).cursor
    /\ pc' = "bw2"
    /\ UNCHANGED <<start, copyString, heap, last, pre, typed, seq>>

InsertCharacter ==
    /\ pc = "idle"
    /\ Len(getText(Buf)) < MaxLen
    /\ \E c \in Chars :
          /\ Return(insertCharacter(Buf, c), Call("insertCharacter", c))
          /\ typed' = IF typed.only THEN [typed EXCEPT !.chars = Append(@, c)] ELSE typed

InsertString ==
    /\ pc = "idle"
    /\ \E s \in Strs :
          /\ Len(getText(Buf)) + Len(s) <= MaxLen
          /\ Return(insertString(Buf, s), Call("insertString", s))
    /\ typed' = NoneTyped

DeleteCharacter ==
    /\ pc = "idle"
    /\ Return(deleteCharacter(Buf), Call("deleteCharacter", <<>>))
    /\ typed' = NoneTyped

DeleteWord ==
    /\ pc = "idle"
    /\ Return(deleteWord(Buf), Call("deleteWord", <<>>))
    /\ typed' = NoneTyped

Copy ==
    /\ pc = "idle"
    /\ \E n \in CopyArgs : Return(copy(Buf, n), Call("copy", n))
    /\ typed' = NoneTyped

CopyWords ==
    /\ pc = "idle"
    /\ \E n \in WordArgs : Return(copyWords(Buf, n), Call("copyWords", n))
    /\ typed' = NoneTyped

Paste ==
    /\ pc = "idle"
    /\ Len(getText(Buf)) + Len(copyString) <= MaxLen
    /\ Return(paste(Buf), Call("paste", <<>>))
    /\ typed' = NoneTyped

\* The owner destroys the buffer; last.arg lists the cells deleted.
Destroy ==
    /\ pc = "idle"
    /\ heap' = destroy(Buf).heap
    /\ pc' = "destroyed"
    /\ last' = Call("~EditorBuffer", destroy(Buf).freed)
    /\ pre' = Obs
    /\ typed' = NoneTyped
    /\ seq' = NoSeq
    /\ UNCHANGED <<start, cursor, copyString>>

\* The caller has looked at the outcome of the call and is ready for the next.
Resume ==
    /\ pc = "ret"
    /\ pc' = "idle"
    /\ last' = NoCall
    /\ pre' = NoObs
    /\ seq' = IF SeqDone THEN NoSeq ELSE seq
    /\ UNCHANGED <<start, cursor, copyString, heap, typed>>

Next ==
    \/ Resume
    \/ MoveCursorForward
    \/ MoveCursorBackward
    \/ MoveCursorForwardWord
    \/ MoveCursorToStart
    \/ MoveCursorToEnd
    \/ BackwardWordCall
    \/ BackwardWordTest1
    \/ BackwardWordBody1
    \/ BackwardWordTest2
    \/ BackwardWordBody2
    \/ InsertCharacter
    \/ InsertString
    \/ DeleteCharacter
    \/ DeleteWord
    \/ Copy
    \/ CopyWords
    \/ Paste
    \/ Destroy

Spec == Init /\ [][Next]_vars

\* A call that has started keeps executing: the loops of
\* moveCursorBackwardWord take their next step.
FairSpec ==
    /\ Spec
    /\ WF_vars(BackwardWordTest1)
    /\ WF_vars(BackwardWordBody1)
    /\ WF_vars(BackwardWordTest2)
    /\ WF_vars(BackwardWordBody2)

----------------------------------------------------------------------------
(* Vocabulary of the properties: texts as sequences, indices counted from  *)
(* 0, T[i] of the prose being T[i + 1] here.                               *)

SetMin(S) == CHOOSE x \in S : \A y \in S : x <= y

SetMax(S) == CHOOSE x \in S : \A y \in S : x >= y

\* T[lo..hi) of the prose.
Slice(T, lo, hi) == SubSeq(T, lo + 1, hi)

\* T with s put in at index p.
Ins(T, p, s) == Slice(T, 0, p) \o s \o Slice(T, p, Len(T))

\* Forward word scan from p: past the delimiters (q), then past one word (r).
FwQ(T, p) == SetMin({q \in p .. Len(T) : q = Len(T) \/ ~IsDelim(T[q + 1])})

FwR(T, p) == SetMin({r \in FwQ(T, p) .. Len(T) : r = Len(T) \/ IsDelim(T[r + 1])})

\* Backward word scan from p: back over the delimiters (q), then over one word (r).
BwQ(T, p) == SetMax({q \in 0 .. p : q = 0 \/ ~IsDelim(T[q])})

BwR(T, p) == SetMax({r \in 0 .. BwQ(T, p) : r = 0 \/ IsDelim(T[r])})

\* The call named op has returned.
Returned(op) == pc = "ret" /\ last.op = op

\* The buffer has not been destroyed.
Alive == pc # "destroyed"

InBackwardWord == pc \in {"bw1", "body1", "bw2", "body2"}

----------------------------------------------------------------------------
(* C1: every operation, called in any reachable state, returns after       *)
(* finitely many steps; in particular moveCursorBackwardWord returns when  *)
(* its backward scan reaches the start of the buffer, whatever the dummy   *)
(* cell's ch field holds.  All other operations are single steps here, so  *)
(* the property is that a started moveCursorBackwardWord returns.          *)
C1_EveryCallReturns == InBackwardWord ~> (pc = "ret")

----------------------------------------------------------------------------
(* C2: in every reachable state the index getCursor() returns lies in      *)
(* 0 .. length, length being the number of characters of getText().        *)
C2_CursorInRange == Alive => getCursor(Buf) \in 0 .. Len(getText(Buf))

\* deleteCharacter has removed the last character while the cursor stood
\* before it, so the length came down to the cursor index.
C2_Witness ==
    /\ Returned("deleteCharacter")
    /\ pre.cursor >= 1
    /\ pre.cursor = Len(pre.text) - 1
    /\ getCursor(Buf) = Len(getText(Buf))

----------------------------------------------------------------------------
(* C3: navigation at either end is a no-op: moveCursorForward and          *)
(* moveCursorForwardWord called at index length, moveCursorBackward and    *)
(* moveCursorBackwardWord called at index 0, each return with text, cursor *)
(* index and clipboard unchanged.                                          *)
C3_EndNavigationIsNoOp ==
    /\ [](/\ pc = "ret"
          /\ last.op \in {"moveCursorForward", "moveCursorForwardWord"}
          /\ pre.cursor = Len(pre.text)
          => Obs = pre)
    /\ [](/\ pc = "ret"
          /\ last.op \in {"moveCursorBackward", "moveCursorBackwardWord"}
          /\ pre.cursor = 0
          => Obs = pre)
    /\ ((pc = "bw1" /\ pre.cursor = 0) ~> (Returned("moveCursorBackwardWord") /\ Obs = pre))

----------------------------------------------------------------------------
(* C4: insertCharacter(ch) with text T and cursor p yields T[0..p) + ch +  *)
(* T[p..), cursor p + 1 and the same clipboard; so from the empty buffer,  *)
(* after insertCharacter calls only, getText() is the characters inserted  *)
(* in call order and getCursor() is their number.                          *)
C4_InsertCharacter ==
    /\ Returned("insertCharacter") =>
          Obs = [text |-> Ins(pre.text, pre.cursor, <<last.arg>>),
                 cursor |-> pre.cursor + 1,
                 clip |-> pre.clip]
    /\ typed.only => getText(Buf) = typed.chars /\ getCursor(Buf) = Len(typed.chars)

\* A character was inserted strictly inside a text, with a clipboard to keep.
C4_Witness ==
    /\ Returned("insertCharacter")
    /\ 0 < pre.cursor
    /\ pre.cursor < Len(pre.text)
    /\ pre.clip # <<>>
    /\ pre.text[pre.cursor + 1] # last.arg

----------------------------------------------------------------------------
(* C5: moveCursorBackwardWord with text T and cursor p leaves text and     *)
(* clipboard unchanged and sets the cursor to r, where q is the largest    *)
(* index <= p with q = 0 or T[q-1] no delimiter and r the largest index    *)
(* <= q with r = 0 or T[r-1] a delimiter; it lands at 0 when the word is   *)
(* the first of the buffer or only delimiters precede p.                   *)
C5_BackwardWord ==
    /\ [](Returned("moveCursorBackwardWord") =>
             Obs = [pre EXCEPT !.cursor = BwR(pre.text, pre.cursor)])
    /\ ((pc = "bw1" /\ BwR(pre.text, pre.cursor) = 0) ~>
           (Returned("moveCursorBackwardWord") /\ getCursor(Buf) = 0))

----------------------------------------------------------------------------
(* C6: moveCursorForwardWord with text T and cursor p leaves text and      *)
(* clipboard unchanged and sets the cursor to r, where q is the smallest   *)
(* index >= p with q = length or T[q] no delimiter and r the smallest      *)
(* index >= q with r = length or T[r] a delimiter.                         *)
C6_ForwardWord ==
    Returned("moveCursorForwardWord") =>
        Obs = [pre EXCEPT !.cursor = FwR(pre.text, pre.cursor)]

\* The scan crossed a delimiter, then a word, and stopped before a delimiter.
C6_Witness ==
    /\ Returned("moveCursorForwardWord")
    /\ pre.cursor < Len(pre.text)
    /\ IsDelim(pre.text[pre.cursor + 1])
    /\ getCursor(Buf) >= pre.cursor + 2
    /\ getCursor(Buf) < Len(pre.text)
    /\ pre.clip # <<>>

----------------------------------------------------------------------------
(* C7: deleteWord with text T and cursor p yields T[0..p) + T[r..), r      *)
(* being the index moveCursorForwardWord would reach from p; the cursor    *)
(* index stays p and the clipboard is unchanged.                           *)
C7_DeleteWord ==
    Returned("deleteWord") =>
        Obs = [pre EXCEPT !.text = Slice(pre.text, 0, pre.cursor) \o
                                   Slice(pre.text, FwR(pre.text, pre.cursor), Len(pre.text))]

\* Delimiters and a word were deleted and a delimiter after the word remains.
C7_Witness ==
    /\ Returned("deleteWord")
    /\ pre.cursor < Len(pre.text)
    /\ IsDelim(pre.text[pre.cursor + 1])
    /\ Len(getText(Buf)) <= Len(pre.text) - 2
    /\ Len(getText(Buf)) > pre.cursor
    /\ pre.clip # <<>>

----------------------------------------------------------------------------
(* C8: copyWords(nWords), nWords >= 1, with text T and cursor p sets the   *)
(* clipboard to T[p..r), r being the index reached by nWords applications  *)
(* of moveCursorForwardWord from p; text and cursor index are unchanged.   *)
RECURSIVE FwRTimes(_, _, _)
FwRTimes(T, p, n) == IF n = 0 THEN p ELSE FwRTimes(T, FwR(T, p), n - 1)

C8_CopyWords ==
    Returned("copyWords") /\ last.arg >= 1 =>
        Obs = [pre EXCEPT !.clip = Slice(pre.text, pre.cursor,
                                         FwRTimes(pre.text, pre.cursor, last.arg))]

\* Two words were asked for and two words, with the delimiter between them,
\* were stored over an older clipboard.
C8_Witness ==
    /\ Returned("copyWords")
    /\ last.arg = 2
    /\ Len(copyString) = 3
    /\ ~IsDelim(copyString[1])
    /\ IsDelim(copyString[2])
    /\ ~IsDelim(copyString[3])
    /\ pre.clip # <<>>

----------------------------------------------------------------------------
(* C9: copyWords(nWords), nWords >= 1, called with one or more delimiters  *)
(* immediately right of the cursor followed by a word, stores a text with  *)
(* no leading whitespace (its first character is no delimiter).            *)
DelimsThenWord(T, p) ==
    /\ p < Len(T)
    /\ IsDelim(T[p + 1])
    /\ FwQ(T, p) < Len(T)

C9_NoLeadingWhitespace ==
    Returned("copyWords") /\ last.arg >= 1 /\ DelimsThenWord(pre.text, pre.cursor) =>
        copyString # <<>> /\ ~IsDelim(copyString[1])

\* C9 as amended: in that case the stored text starts with the whole run of
\* delimiters right of the cursor, followed by the first character of the word.
C9_LeadingWhitespaceKept ==
    Returned("copyWords") /\ last.arg >= 1 /\ DelimsThenWord(pre.text, pre.cursor) =>
        LET q == FwQ(pre.text, pre.cursor)
        IN  /\ Len(copyString) >= q + 1 - pre.cursor
            /\ Slice(copyString, 0, q + 1 - pre.cursor) = Slice(pre.text, pre.cursor, q + 1)
            /\ IsDelim(copyString[1])

\* Two delimiters, then a word, were stored.
C9_Witness ==
    /\ Returned("copyWords")
    /\ last.arg >= 1
    /\ DelimsThenWord(pre.text, pre.cursor)
    /\ FwQ(pre.text, pre.cursor) = pre.cursor + 2
    /\ Len(copyString) = 3

----------------------------------------------------------------------------
(* C10: copy(nChars), nChars >= 0, with text T and cursor p sets the       *)
(* clipboard to T[p .. min(p + nChars, length)), replacing what it held;   *)
(* text and cursor index are unchanged.                                    *)
C10_Copy ==
    Returned("copy") /\ last.arg >= 0 =>
        Obs = [pre EXCEPT !.clip = Slice(pre.text, pre.cursor,
                                         Min(pre.cursor + last.arg, Len(pre.text)))]

\* More characters were asked for than remain right of a cursor inside the
\* text, and what was stored replaced a different clipboard.
C10_Witness ==
    /\ Returned("copy")
    /\ pre.cursor > 0
    /\ pre.cursor < Len(pre.text)
    /\ last.arg > Len(pre.text) - pre.cursor
    /\ pre.clip # <<>>
    /\ copyString # pre.clip
    /\ copyString # <<>>

----------------------------------------------------------------------------
(* C11: paste() with clipboard C, text T and cursor p yields T[0..p) + C + *)
(* T[p..) and cursor p + len(C), as insertString(C) would, and leaves the  *)
(* clipboard equal to C; so two pastes in a row insert C twice, and a      *)
(* paste of an empty clipboard changes nothing.                            *)
PasteTwiceFits == Alive /\ Len(getText(Buf)) + 2 * Len(copyString) <= MaxLen

C11_Paste ==
    /\ Returned("paste") =>
          /\ Obs = [text |-> Ins(pre.text, pre.cursor, pre.clip),
                    cursor |-> pre.cursor + Len(pre.clip),
                    clip |-> pre.clip]
          /\ pre.clip = <<>> => Obs = pre
    /\ PasteTwiceFits =>
          /\ Observe(paste(Buf)) = Observe(insertString(Buf, copyString))
          /\ Observe(paste(paste(Buf))) =
                [text |-> Ins(getText(Buf), getCursor(Buf), copyString \o copyString),
                 cursor |-> getCursor(Buf) + 2 * Len(copyString),
                 clip |-> copyString]

\* A clipboard of two different characters was pasted before a character.
C11_Witness ==
    /\ Returned("paste")
    /\ Len(pre.clip) = 2
    /\ pre.clip[1] # pre.clip[2]
    /\ pre.cursor < Len(pre.text)
    /\ pre.text[pre.cursor + 1] # pre.clip[2]

----------------------------------------------------------------------------
(* C12: the clipboard is one overwritable slot: a step changes it only if  *)
(* the step is a copy or copyWords call, which puts in it what that call   *)
(* captures whatever it held; so it always equals what the latest copy or  *)
(* copyWords captured (empty if there was none), and no other operation    *)
(* changes it, however the text is edited afterwards.                      *)
Captured(o, call) ==
    IF call.op = "copy"
    THEN Slice(o.text, o.cursor,
               IF call.arg < 0 THEN Len(o.text) ELSE Min(o.cursor + call.arg, Len(o.text)))
    ELSE Slice(o.text, o.cursor,
               IF call.arg < 1 THEN o.cursor ELSE FwRTimes(o.text, o.cursor, call.arg))

IsCopyStep == pc = "idle" /\ pc' = "ret" /\ last'.op \in {"copy", "copyWords"}

C12_ClipboardSingleSlot ==
    /\ copyString = <<>>
    /\ [][IF IsCopyStep
          THEN copyString' = Captured(Obs, last')
          ELSE copyString' = copyString]_vars

\* The clipboard still holds two characters after deleteWord has emptied the
\* text they were copied from.
C12_Witness ==
    /\ Returned("deleteWord")
    /\ getText(Buf) = <<>>
    /\ pre.text # <<>>
    /\ Len(copyString) = 2

----------------------------------------------------------------------------
(* C15: insertString(s) with text T and cursor p yields T[0..p) + s +      *)
(* T[p..), the characters of s in their order, cursor p + len(s) and the   *)
(* same clipboard; insertString("") changes nothing.                       *)
C15_InsertString ==
    Returned("insertString") =>
        /\ Obs = [text |-> Ins(pre.text, pre.cursor, last.arg),
                  cursor |-> pre.cursor + Len(last.arg),
                  clip |-> pre.clip]
        /\ last.arg = <<>> => Obs = pre

\* A string of two different characters was inserted before the last
\* character of a text.
C15_Witness ==
    /\ Returned("insertString")
    /\ Len(last.arg) = 2
    /\ last.arg[1] # last.arg[2]
    /\ pre.cursor < Len(pre.text)
    /\ pre.clip # <<>>

----------------------------------------------------------------------------
(* C16: deleteCharacter() with text T and cursor p < length yields         *)
(* T[0..p) + T[p+1..) with the cursor still at p; with p = length it       *)
(* changes nothing.  The clipboard is unchanged in both cases.             *)
C16_DeleteCharacter ==
    Returned("deleteCharacter") =>
        IF pre.cursor < Len(pre.text)
        THEN Obs = [pre EXCEPT !.text = Slice(pre.text, 0, pre.cursor) \o
                                        Slice(pre.text, pre.cursor + 1, Len(pre.text))]
        ELSE Obs = pre

\* A character with characters on both sides of it was deleted.
C16_Witness ==
    /\ Returned("deleteCharacter")
    /\ 0 < pre.cursor
    /\ pre.cursor + 1 < Len(pre.text)
    /\ pre.text[pre.cursor] # pre.text[pre.cursor + 2]
    /\ pre.clip # <<>>

----------------------------------------------------------------------------
(* C17: character navigation changes the cursor only: with text of length  *)
(* n and cursor p, moveCursorForward gives min(p + 1, n),                  *)
(* moveCursorBackward max(p - 1, 0), moveCursorToStart 0 and               *)
(* moveCursorToEnd n; text and clipboard are as before.                    *)
C17_CharacterNavigation ==
    /\ Returned("moveCursorForward") =>
          Obs = [pre EXCEPT !.cursor = Min(pre.cursor + 1, Len(pre.text))]
    /\ Returned("moveCursorBackward") =>
          Obs = [pre EXCEPT !.cursor = IF pre.cursor > 0 THEN pre.cursor - 1 ELSE 0]
    /\ Returned("moveCursorToStart") => Obs = [pre EXCEPT !.cursor = 0]
    /\ Returned("moveCursorToEnd") => Obs = [pre EXCEPT !.cursor = Len(pre.text)]

\* moveCursorToEnd crossed the whole of a text of MaxLen characters.
C17_Witness ==
    /\ Returned("moveCursorToEnd")
    /\ pre.cursor = 0
    /\ getCursor(Buf) = MaxLen
    /\ pre.clip # <<>>

----------------------------------------------------------------------------
(* C20: copy(nChars) with nChars < 0 stores the whole text right of the    *)
(* cursor, T[p..length), the count being converted to an unsigned one and  *)
(* clamped; copyWords(nWords) with nWords <= 0 stores the empty string.    *)
(* Text and cursor are unchanged by both.                                  *)
C20_NegativeCounts ==
    /\ Returned("copy") /\ last.arg < 0 =>
          Obs = [pre EXCEPT !.clip = Slice(pre.text, pre.cursor, Len(pre.text))]
    /\ Returned("copyWords") /\ last.arg <= 0 => Obs = [pre EXCEPT !.clip = <<>>]

\* copy(-1) stored the two characters right of a cursor inside the text.
C20_Witness ==
    /\ Returned("copy")
    /\ last.arg < 0
    /\ pre.cursor > 0
    /\ Len(copyString) = 2
    /\ copyString # pre.clip

----------------------------------------------------------------------------
(* C18: the ch field of the dummy cell, which the constructor never        *)
(* initialises, is never used: no operation in any reachable state reads   *)
(* start->ch, so no outcome depends on what it holds.  The two loop tests  *)
(* of moveCursorBackwardWord read cursor->ch; the property is that they    *)
(* are never evaluated with the cursor on the dummy cell.                  *)
ReadsCursorCh == pc \in {"bw1", "bw2"}

C18_DummyChNeverRead == ~(ReadsCursorCh /\ cursor = start)

----------------------------------------------------------------------------
(* C19: heap shape: in every reachable state the cells allocated and not   *)
(* freed are exactly the acyclic, NULL-terminated chain from start (the    *)
(* dummy cell and one cell per character of getText()), and cursor points  *)
(* into that chain; so no deletion frees the dummy cell or the cursor's    *)
(* cell, and destruction frees every cell exactly once.                    *)

\* The cells met following the links from cp, and where the walk ends: NULL,
\* a cell met before (a cycle) or a cell that is not allocated.
RECURSIVE Walk(_, _, _)
Walk(h, cp, seen) ==
    IF cp = NULL \/ cp \in seen \/ cp \notin DOMAIN h
    THEN [cells |-> seen, end |-> cp]
    ELSE Walk(h, h[cp].link, seen \cup {cp})

NoRepeats(q) == \A i, j \in 1 .. Len(q) : q[i] = q[j] => i = j

C19_HeapShape ==
    /\ Alive =>
          LET w == Walk(heap, start, {})
          IN  /\ w.end = NULL
              /\ w.cells = DOMAIN heap
              /\ start \in DOMAIN heap
              /\ cursor \in w.cells
              /\ Cardinality(DOMAIN heap) = Len(getText(Buf)) + 1
    /\ pc = "destroyed" =>
          /\ DOMAIN heap = {}
          /\ NoRepeats(last.arg)
          /\ Len(last.arg) = Len(pre.text) + 1

\* A full buffer whose chain does not follow the order of the addresses has
\* been destroyed.
C19_Witness ==
    /\ pc = "destroyed"
    /\ Len(last.arg) = MaxLen + 1
    /\ \E i \in 1 .. MaxLen : last.arg[i] > last.arg[i + 1]

----------------------------------------------------------------------------
(* C13: round trip: from any reachable state with text T and cursor p,     *)
(* insertCharacter(c); moveCursorBackward(); deleteCharacter() ends with   *)
(* text T, cursor p and the same clipboard, for every c and every p.       *)
RoundTripDone == pc = "ret" /\ seq.first = "insertCharacter" /\ seq.stage = 3

C13_InsertBackDelete == RoundTripDone => Obs = seq.snap

\* The three calls were made from a cursor strictly inside a text, the
\* character inserted differing from the one it was put before.
C13_Witness ==
    /\ RoundTripDone
    /\ 0 < seq.snap.cursor
    /\ seq.snap.cursor < Len(seq.snap.text)
    /\ seq.snap.text[seq.snap.cursor] = "a"
    /\ seq.snap.text[seq.snap.cursor + 1] = SPACE
    /\ seq.snap.clip # <<>>

----------------------------------------------------------------------------
(* C14: from a cursor strictly inside a word, moveCursorForwardWord()      *)
(* followed by moveCursorBackwardWord() leaves the cursor at the index of  *)
(* the first character of that word, also when the word is the first of    *)
(* the buffer (index 0).                                                   *)
WordStart(T, p) == SetMax({r \in 0 .. p : r = 0 \/ IsDelim(T[r])})

WordPairAt(point) == pc = point /\ seq.first = "moveCursorForwardWord" /\ seq.stage = 2

C14_ForwardThenBackwardWord ==
    /\ [](WordPairAt("ret") => getCursor(Buf) = WordStart(seq.snap.text, seq.snap.cursor))
    /\ (WordPairAt("bw1") ~> WordPairAt("ret"))

====
